---- MODULE Spec2Model ----
(***************************************************************************)
(* Model of the expression engine of src/main.cpp: the Tokenizer (a pull   *)
(* lexer with one token of lookahead), the Parser (recursive descent,      *)
(* modelled as an explicit stack of activation frames) and eval() on the   *)
(* tree the parser builds.                                                 *)
(*                                                                         *)
(* Characters are their char codes as a signed 8-bit char (-128..127).     *)
(* A double is modelled by its exact value: a sign, a numerator and a      *)
(* denominator in lowest terms, with signed zero, the two infinities and   *)
(* NaN; rounding of the binary format is not modelled, and NaN is one      *)
(* value here.                                                             *)
(***************************************************************************)
EXTENDS Integers, Sequences, FiniteSets, TLC

VARIABLES tokenizer, stack, ret, status, error, what, result, previous, calls

vars == <<tokenizer, stack, ret, status, error, what, result, previous, calls>>

----------------------------------------------------------------------------
(* Characters                                                              *)

NUL == 0
SPACE == 32
LPAREN == 40
RPAREN == 41
STAR == 42
PLUS == 43
MINUS == 45
DOT == 46
SLASH == 47
DIGIT0 == 48
DIGIT9 == 57

\* Characters of inputs that the code names nowhere: a tab, '@', and a byte
\* outside ASCII, which is negative as a char.
Unnamed == [tab |-> 9, at |-> 64, high |-> -128]

\* What a read past the terminating '\0' of the input gives: no character.
Wild == 999

isdigit(c) == c >= DIGIT0 /\ c <= DIGIT9

----------------------------------------------------------------------------
(* double                                                                  *)

RECURSIVE GCD(_, _)
GCD(a, b) == IF b = 0 THEN a ELSE GCD(b, a % b)

Norm(s, n, d) == LET g == GCD(n, d) IN [s |-> s, n |-> n \div g, d |-> d \div g]

NaN == [s |-> 1, n |-> 0, d |-> 0]
Inf(s) == [s |-> s, n |-> 1, d |-> 0]
Zero(s) == [s |-> s, n |-> 0, d |-> 1]
Num(n) == [s |-> 1, n |-> n, d |-> 1]

IsNaN(a) == a.d = 0 /\ a.n = 0
IsInf(a) == a.d = 0 /\ a.n = 1
IsZero(a) == a.d # 0 /\ a.n = 0

Abs(i) == IF i < 0 THEN -i ELSE i

Neg(a) == IF IsNaN(a) THEN a ELSE [a EXCEPT !.s = -a.s]

Add(a, b) ==
    IF IsNaN(a) \/ IsNaN(b) \/ (IsInf(a) /\ IsInf(b) /\ a.s # b.s) THEN NaN
    ELSE IF IsInf(a) THEN a
    ELSE IF IsInf(b) THEN b
    ELSE LET num == a.s * a.n * b.d + b.s * b.n * a.d
         IN  IF num = 0
             THEN Zero(IF IsZero(a) /\ IsZero(b) /\ a.s = -1 /\ b.s = -1 THEN -1 ELSE 1)
             ELSE Norm(IF num < 0 THEN -1 ELSE 1, Abs(num), a.d * b.d)

Sub(a, b) == Add(a, Neg(b))

Mul(a, b) ==
    IF IsNaN(a) \/ IsNaN(b) \/ (IsInf(a) /\ IsZero(b)) \/ (IsZero(a) /\ IsInf(b)) THEN NaN
    ELSE IF IsInf(a) \/ IsInf(b) THEN Inf(a.s * b.s)
    ELSE Norm(a.s * b.s, a.n * b.n, a.d * b.d)

Div(a, b) ==
    IF IsNaN(a) \/ IsNaN(b) \/ (IsInf(a) /\ IsInf(b)) \/ (IsZero(a) /\ IsZero(b)) THEN NaN
    ELSE IF IsInf(a) \/ IsZero(b) THEN Inf(a.s * b.s)
    ELSE IF IsInf(b) THEN Zero(a.s * b.s)
    ELSE Norm(a.s * b.s, a.n * b.d, a.d * b.n)

RECURSIVE Pow10(_)
Pow10(k) == IF k = 0 THEN 1 ELSE 10 * Pow10(k - 1)

RECURSIVE DigitsValue(_)
DigitsValue(ds) ==
    IF ds = <<>> THEN 0
    ELSE 10 * DigitsValue(SubSeq(ds, 1, Len(ds) - 1)) + (ds[Len(ds)] - DIGIT0)

RECURSIVE DigitRun(_, _)
\* The number of digits of text from index i on, up to the first non-digit.
DigitRun(text, i) ==
    IF i <= Len(text) /\ isdigit(text[i]) THEN 1 + DigitRun(text, i + 1) ELSE 0

\* strtod on a text of digits and dots: the longest prefix digits [. digits]
\* that holds a digit is converted; with no digit in it nothing is converted
\* and the result is +0.
strtod(text) ==
    LET ni == DigitRun(text, 1)
        hasdot == ni + 1 <= Len(text) /\ text[ni + 1] = DOT
        nf == IF hasdot THEN DigitRun(text, ni + 2) ELSE 0
    IN  IF ni + nf = 0 THEN Zero(1)
        ELSE Norm(1,
                  DigitsValue(SubSeq(text, 1, ni)) * Pow10(nf)
                      + DigitsValue(SubSeq(text, ni + 2, ni + 1 + nf)),
                  Pow10(nf))

----------------------------------------------------------------------------
(* Tokenizer                                                               *)

Token == {"addition", "subtraction", "multiplication", "division",
          "opened_parentheses", "closed_parentheses", "number", "eof"}

\* input[position] of a std::string: the character, or the terminating '\0'
\* at position = size().
CharAt(input, position) ==
    IF position < Len(input) THEN input[position + 1]
    ELSE IF position = Len(input) THEN NUL
    ELSE Wild

\* Tokenizer() = default, with the default member initializers.  tok_start
\* (the index in input, from 1, of the character the latest scan started at,
\* 0 before any scan) and scan_ok (whether the latest scan returned) record
\* what next_token did; the code does not keep them.
DefaultTokenizer ==
    [current_token |-> "number", current_char |-> 1, number |-> Zero(1),
     position |-> 0, input |-> <<>>, tok_start |-> 0, scan_ok |-> TRUE]

next_char(tk) ==
    LET symbol == CharAt(tk.input, tk.position)
    IN  [tk EXCEPT !.position = @ + 1,
                   !.current_char = IF symbol < 0 THEN NUL ELSE symbol]

RECURSIVE skip_spaces(_)
skip_spaces(tk) ==
    IF tk.current_char = SPACE THEN skip_spaces(next_char(tk)) ELSE tk

SingleCharToken(c) ==
    CASE c = PLUS -> "addition"
      [] c = MINUS -> "subtraction"
      [] c = STAR -> "multiplication"
      [] c = SLASH -> "division"
      [] c = LPAREN -> "opened_parentheses"
      [] c = RPAREN -> "closed_parentheses"
      [] OTHER -> "none"

\* is_decimal after the character c has been appended.
is_decimal_after(is_decimal, c) == c = DOT

RECURSIVE scan_number(_, _, _)
\* The loop of the numeric branch: the tokenizer after it and string_builder.
scan_number(tk, is_decimal, text) ==
    IF isdigit(tk.current_char) \/ (~is_decimal /\ tk.current_char = DOT)
    THEN scan_number(next_char(tk),
                     is_decimal_after(is_decimal, tk.current_char),
                     Append(text, tk.current_char))
    ELSE [tk |-> tk, text |-> text]

\* case '\0' that also reads a character.
end_of_input_reading(s) == [next_char(s) EXCEPT !.current_token = "eof"]

\* case '\0' of the switch.
end_of_input(s) == [s EXCEPT !.current_token = "eof"]

\* StartsNumber for a numeric branch that only a digit enters.
StartsNumberDigitOnly(c) == isdigit(c)

StartsNumber(c) == isdigit(c) \/ c = DOT

next_token(tk) ==
    LET t == skip_spaces(tk)
        c == t.current_char
        s == [t EXCEPT !.tok_start = t.position, !.scan_ok = TRUE]
    IN  IF c = NUL THEN end_of_input(s)
        ELSE IF SingleCharToken(c) # "none"
             THEN [next_char(s) EXCEPT !.current_token = SingleCharToken(c)]
        ELSE IF StartsNumber(c)
             THEN LET r == scan_number(s, FALSE, <<>>)
                  IN  [r.tk EXCEPT !.number = strtod(r.text),
                                   !.current_token = "number"]
        ELSE [s EXCEPT !.scan_ok = FALSE]

\* set_input that leaves the cursor where the earlier input left it.
set_input_keeping_position(tk, text) ==
    next_token(next_char([tk EXCEPT !.current_char = 1,
                                    !.current_token = "number",
                                    !.input = text]))

set_input(tk, text) ==
    next_token(next_char([tk EXCEPT !.position = 0,
                                    !.current_char = 1,
                                    !.current_token = "number",
                                    !.input = text]))

\* Tokenizer(std::string input)
NewTokenizer(text) ==
    next_token(next_char([DefaultTokenizer EXCEPT !.input = text]))

----------------------------------------------------------------------------
(* Node                                                                    *)

NoNode == [k |-> "null"]

NumberNode(number) == [k |-> "number", number |-> number]

UnaryOperationNode(right, operation) ==
    [k |-> "unary", operation |-> operation, right |-> right]

BinaryOperationNode(left, right, operation) ==
    [k |-> "binary", operation |-> operation, left |-> left, right |-> right]

\* The lambdas the parser stores in a node.
ApplyBinary(operation, a, b) ==
    CASE operation = "add" -> Add(a, b)
      [] operation = "sub" -> Sub(a, b)
      [] operation = "mul" -> Mul(a, b)
      [] operation = "div" -> Div(a, b)

ApplyUnary(operation, a) == Neg(a)

RECURSIVE eval(_)
eval(node) ==
    CASE node.k = "number" -> node.number
      [] node.k = "unary" -> ApplyUnary(node.operation, eval(node.right))
      [] node.k = "binary" ->
            ApplyBinary(node.operation, eval(node.left), eval(node.right))

----------------------------------------------------------------------------
(* Parser: one activation frame per call in progress, the callee on top    *)

ErrLex == "Not supported type of operator: "
ErrTrailing == "Not understandable expression"
ErrParen == "Missing parentheses"
ErrToken == "Unexpect token: "

\* The number of characters of a literal: its terminating '\0' is at this offset.
LiteralLen(literal) ==
    CASE literal = ErrLex -> 32
      [] literal = ErrTrailing -> 29
      [] literal = ErrParen -> 19
      [] literal = ErrToken -> 16

\* The Token enumerators.
TokenIndex(token) ==
    CASE token = "addition" -> 0
      [] token = "subtraction" -> 1
      [] token = "multiplication" -> 2
      [] token = "division" -> 3
      [] token = "opened_parentheses" -> 4
      [] token = "closed_parentheses" -> 5
      [] token = "number" -> 6
      [] token = "eof" -> 7

\* The argument of std::logic_error: the literal read from an offset.
What(literal, offset) == [literal |-> literal, offset |-> offset]
NoWhat == What("", 0)

\* &literal[offset] with the offset past the literal's '\0' points outside
\* the array: what the exception then holds is not defined by the language.
\* The builds read the bytes that follow the literal up to the next '\0'.
OutOfBounds(w) == w.literal # "" /\ w.offset > LiteralLen(w.literal)
UnspecifiedWhat == {[literal |-> "bytes after the literal", offset |-> 0],
                    [literal |-> "no bytes", offset |-> 0]}

Frame(fn, pc) == [fn |-> fn, pc |-> pc, left |-> NoNode, operation |-> "nullptr"]

Top(m) == m.stack[Len(m.stack)]
SetTop(m, f) == [m EXCEPT !.stack[Len(m.stack)] = f]
Call(m, fn, pc) == [m EXCEPT !.stack = Append(@, Frame(fn, pc))]
Return(m, node) ==
    [m EXCEPT !.stack = SubSeq(@, 1, Len(@) - 1), !.ret = node]

\* An exception leaves every frame: no tree is returned.
Throw(m, e, w) ==
    [m EXCEPT !.status = "threw", !.error = e, !.what = w, !.stack = <<>>,
              !.ret = NoNode, !.result = NoNode]

\* tokenizer->next_token() inside a parsing function.
Advance(m) ==
    LET t == next_token(m.tk)
    IN  IF t.scan_ok THEN [m EXCEPT !.tk = t]
        ELSE Throw([m EXCEPT !.tk = t], ErrLex, What(ErrLex, t.current_char))

AdditiveOperation(token) ==
    CASE token = "addition" -> "add"
      [] token = "subtraction" -> "sub"
      [] OTHER -> "nullptr"

\* MultiplicativeOperation that takes '+' at the multiplicative level too.
MultiplicativeOperationFlat(token) ==
    CASE token = "multiplication" -> "mul"
      [] token = "division" -> "div"
      [] token = "addition" -> "add"
      [] OTHER -> "nullptr"

MultiplicativeOperation(token) ==
    CASE token = "multiplication" -> "mul"
      [] token = "division" -> "div"
      [] OTHER -> "nullptr"

\* Fold with the operands of the new node exchanged.
FoldSwapped(f, right) ==
    IF f.pc = "left" THEN right
    ELSE BinaryOperationNode(right, f.left, f.operation)

\* The subtree a binary level holds when a callee has returned: the first
\* operand, or the node made of the subtree so far and the new operand.
Fold(f, right) ==
    IF f.pc = "left" THEN right
    ELSE BinaryOperationNode(f.left, right, f.operation)

\* parse_expression is entered and calls the additive level.
parse_expression_call(m) ==
    [m EXCEPT !.status = "parsing", !.error = "none", !.what = NoWhat,
              !.result = NoNode, !.ret = NoNode,
              !.stack = <<Frame("parse_expression", "check"),
                          Frame("additive", "call")>>]

\* parse_expression_check without the test of the current token.
parse_expression_unchecked(m) ==
    [m EXCEPT !.status = "returned", !.result = m.ret, !.stack = <<>>,
              !.ret = NoNode]

parse_expression_check(m) ==
    IF m.tk.current_token # "eof"
    THEN Throw(m, ErrTrailing, What(ErrTrailing, 0))
    ELSE [m EXCEPT !.status = "returned", !.result = m.ret, !.stack = <<>>,
                   !.ret = NoNode]

additive_call(m) == Call(SetTop(m, [Top(m) EXCEPT !.pc = "left"]), "multiplicative", "call")

additive_loop(m) ==
    LET f == Top(m)
        left_leaf == Fold(f, m.ret)
        operation == AdditiveOperation(m.tk.current_token)
    IN  IF operation = "nullptr" THEN Return(m, left_leaf)
        ELSE LET a == Advance(m)
             IN  IF a.status = "threw" THEN a
                 ELSE Call(SetTop(a, [f EXCEPT !.pc = "right", !.left = left_leaf,
                                               !.operation = operation]),
                           "multiplicative", "call")

multiplicative_call(m) == Call(SetTop(m, [Top(m) EXCEPT !.pc = "left"]), "unary", "loop")

multiplicative_loop(m) ==
    LET f == Top(m)
        left == Fold(f, m.ret)
        operation == MultiplicativeOperation(m.tk.current_token)
    IN  IF operation = "nullptr" THEN Return(m, left)
        ELSE LET a == Advance(m)
             IN  IF a.status = "threw" THEN a
                 ELSE Call(SetTop(a, [f EXCEPT !.pc = "right", !.left = left,
                                               !.operation = operation]),
                           "unary", "loop")

unary_loop(m) ==
    IF m.tk.current_token = "addition" THEN Advance(m)
    ELSE IF m.tk.current_token = "subtraction"
         THEN LET a == Advance(m)
              IN  IF a.status = "threw" THEN a
                  ELSE Call(SetTop(a, [Top(a) EXCEPT !.pc = "negate"]), "unary", "loop")
    ELSE Call(SetTop(m, [Top(m) EXCEPT !.pc = "return"]), "leaf", "start")

\* unary_negate that returns the operand with no node on it.
unary_negate_dropped(m) == Return(m, m.ret)

unary_negate(m) == Return(m, UnaryOperationNode(m.ret, "negate"))

unary_return(m) == Return(m, m.ret)

leaf_start(m) ==
    IF m.tk.current_token = "number"
    THEN LET node == NumberNode(m.tk.number)
             a == Advance(m)
         IN  IF a.status = "threw" THEN a ELSE Return(a, node)
    ELSE IF m.tk.current_token = "opened_parentheses"
         THEN LET a == Advance(m)
              IN  IF a.status = "threw" THEN a
                  ELSE Call(SetTop(a, [Top(a) EXCEPT !.pc = "close"]), "additive", "call")
    ELSE Throw(m, ErrToken, What(ErrToken, TokenIndex(m.tk.current_token)))

leaf_close(m) ==
    IF m.tk.current_token # "closed_parentheses"
    THEN Throw(m, ErrParen, What(ErrParen, 0))
    ELSE LET a == Advance(m)
         IN  IF a.status = "threw" THEN a ELSE Return(a, m.ret)

At(m, fn, pcs) ==
    m.status = "parsing" /\ Top(m).fn = fn /\ Top(m).pc \in pcs

\* The statement the parser executes next.
ParserStep(m) ==
    CASE At(m, "parse_expression", {"check"}) -> parse_expression_check(m)
      [] At(m, "additive", {"call"}) -> additive_call(m)
      [] At(m, "additive", {"left", "right"}) -> additive_loop(m)
      [] At(m, "multiplicative", {"call"}) -> multiplicative_call(m)
      [] At(m, "multiplicative", {"left", "right"}) -> multiplicative_loop(m)
      [] At(m, "unary", {"loop"}) -> unary_loop(m)
      [] At(m, "unary", {"negate"}) -> unary_negate(m)
      [] At(m, "unary", {"return"}) -> unary_return(m)
      [] At(m, "leaf", {"start"}) -> leaf_start(m)
      [] At(m, "leaf", {"close"}) -> leaf_close(m)

RECURSIVE Run(_)
\* parse_expression run to its return or its exception.
Run(m) == IF m.status = "parsing" THEN Run(ParserStep(m)) ELSE m

----------------------------------------------------------------------------
(* The program state and its steps                                         *)

\* A Tokenizer that has been given its input, with a Parser on it.
Primed(tk) ==
    [tk |-> tk, stack |-> <<>>, ret |-> NoNode, result |-> NoNode,
     status |-> IF tk.scan_ok THEN "idle" ELSE "threw",
     error |-> IF tk.scan_ok THEN "none" ELSE ErrLex,
     what |-> IF tk.scan_ok THEN NoWhat ELSE What(ErrLex, tk.current_char)]

\* new Tokenizer(text); new Parser(tokenizer).  When the constructor throws
\* there is no Tokenizer: nothing can be called on it.
Construct(text) ==
    LET m == Primed(NewTokenizer(text))
    IN  IF m.status = "threw" THEN [m EXCEPT !.status = "failed"] ELSE m

Machine ==
    [tk |-> tokenizer, stack |-> stack, ret |-> ret, status |-> status,
     error |-> error, what |-> NoWhat, result |-> result]

Becomes(m) ==
    /\ tokenizer' = m.tk
    /\ stack' = m.stack
    /\ ret' = m.ret
    /\ status' = m.status
    /\ error' = m.error
    /\ result' = m.result
    /\ what' \in (IF OutOfBounds(m.what) THEN UnspecifiedWhat ELSE {m.what})

InitWith(Texts) ==
    /\ \E text \in Texts : 
          LET m == Construct(text)
          IN  /\ tokenizer = m.tk
              /\ stack = m.stack
              /\ ret = m.ret
              /\ status = m.status
              /\ error = m.error
              /\ result = m.result
              /\ what \in (IF OutOfBounds(m.what) THEN UnspecifiedWhat ELSE {m.what})
    /\ previous = NoNode
    /\ calls = 0

MaxCalls == 2

\* parser->tokenizer->set_input(text), between two parses.
SetInput(Texts) ==
    /\ status \in {"idle", "returned", "threw"}
    /\ \E text \in Texts : Becomes(Primed(set_input(tokenizer, text)))
    /\ previous' = NoNode
    /\ calls' = 0

\* parser->parse_expression() is called; previous is what the call before
\* it returned for this input.
ParseExpression ==
    /\ status \in {"idle", "returned", "threw"}
    /\ calls < MaxCalls
    /\ Becomes(parse_expression_call(Machine))
    /\ previous' = result
    /\ calls' = calls + 1

ExpressionCheck ==
    /\ At(Machine, "parse_expression", {"check"})
    /\ Becomes(parse_expression_check(Machine))
    /\ UNCHANGED <<previous, calls>>

AdditiveCall ==
    /\ At(Machine, "additive", {"call"})
    /\ Becomes(additive_call(Machine))
    /\ UNCHANGED <<previous, calls>>

AdditiveLoop ==
    /\ At(Machine, "additive", {"left", "right"})
    /\ Becomes(additive_loop(Machine))
    /\ UNCHANGED <<previous, calls>>

MultiplicativeCall ==
    /\ At(Machine, "multiplicative", {"call"})
    /\ Becomes(multiplicative_call(Machine))
    /\ UNCHANGED <<previous, calls>>

MultiplicativeLoop ==
    /\ At(Machine, "multiplicative", {"left", "right"})
    /\ Becomes(multiplicative_loop(Machine))
    /\ UNCHANGED <<previous, calls>>

UnaryLoop ==
    /\ At(Machine, "unary", {"loop"})
    /\ Becomes(unary_loop(Machine))
    /\ UNCHANGED <<previous, calls>>

UnaryNegate ==
    /\ At(Machine, "unary", {"negate"})
    /\ Becomes(unary_negate(Machine))
    /\ UNCHANGED <<previous, calls>>

UnaryReturn ==
    /\ At(Machine, "unary", {"return"})
    /\ Becomes(unary_return(Machine))
    /\ UNCHANGED <<previous, calls>>

LeafStart ==
    /\ At(Machine, "leaf", {"start"})
    /\ Becomes(leaf_start(Machine))
    /\ UNCHANGED <<previous, calls>>

LeafClose ==
    /\ At(Machine, "leaf", {"close"})
    /\ Becomes(leaf_close(Machine))
    /\ UNCHANGED <<previous, calls>>

Parse ==
    \/ ExpressionCheck
    \/ AdditiveCall
    \/ AdditiveLoop
    \/ MultiplicativeCall
    \/ MultiplicativeLoop
    \/ UnaryLoop
    \/ UnaryNegate
    \/ UnaryReturn
    \/ LeafStart
    \/ LeafClose

----------------------------------------------------------------------------
(* Inputs                                                                  *)

MaxLen == 3
MaxNumeral == 5
MaxChain == 2
MaxOps == 2
MaxSigns == 7

Strings(Alphabet, n) == UNION {[1..k -> Alphabet] : k \in 0..n}

RECURSIVE Flatten(_)
Flatten(texts) ==
    IF texts = <<>> THEN <<>> ELSE Head(texts) \o Flatten(Tail(texts))

\* Every text of at most MaxLen characters over these.
Alphabet == {DIGIT0 + 1, DOT, PLUS, MINUS, STAR, LPAREN, RPAREN, SPACE, Unnamed.at, Unnamed.high}
ShortTexts == Strings(Alphabet, MaxLen)

\* Digits and dots, and one text with a tab.
NumeralTexts == Strings({DIGIT0 + 1, DIGIT0 + 2, DOT}, MaxNumeral) \cup {<<DIGIT0 + 1, Unnamed.tab>>}

OperationChar(operation) ==
    CASE operation = "add" -> PLUS
      [] operation = "sub" -> MINUS
      [] operation = "mul" -> STAR
      [] operation = "div" -> SLASH

\* a op1 b op2 ... z with number operands and the operators of one level.
Operands == {<<DIGIT0 + 1, DIGIT0>>, <<DIGIT0 + 5>>, <<DIGIT0 + 2>>}
Levels == {{"add", "sub"}, {"mul", "div"}}
Chains ==
    UNION {[first : Operands, ops : [1..n -> level], args : [1..n -> Operands]] :
              <<n, level>> \in (1..MaxChain) \X Levels}

ChainText(c) ==
    c.first \o Flatten([i \in 1..Len(c.ops) |-> <<OperationChar(c.ops[i])>> \o c.args[i]])

ChainTexts == {ChainText(c) : c \in Chains}

\* The trees of binary nodes over number leaves, written with the
\* parentheses the grammar needs and no others.
LeafTexts == {<<DIGIT0 + 3>>, <<DIGIT0 + 2, DIGIT0>>}
TreeOperations == {"add", "sub", "mul", "div"}
RECURSIVE Trees(_)
Trees(n) ==
    IF n = 0 THEN {NumberNode(strtod(t)) : t \in LeafTexts}
    ELSE UNION {{BinaryOperationNode(l, r, o) :
                     l \in Trees(i), r \in Trees(n - 1 - i),
                     o \in TreeOperations} : i \in 0..(n - 1)}

AllTrees == UNION {Trees(n) : n \in 0..MaxOps}

IsAdditive(t) == t.k = "binary" /\ t.operation \in {"add", "sub"}
IsMultiplicative(t) == t.k = "binary" /\ t.operation \in {"mul", "div"}
Parenthesized(text) == <<LPAREN>> \o text \o <<RPAREN>>

LeafTextOf(v) == CHOOSE t \in LeafTexts : strtod(t) = v

RECURSIVE TreeText(_)
TreeText(t) ==
    IF t.k = "number" THEN LeafTextOf(t.number)
    ELSE LET l == TreeText(t.left)
             r == TreeText(t.right)
         IN  IF IsAdditive(t)
             THEN l \o <<OperationChar(t.operation)>>
                    \o (IF IsAdditive(t.right) THEN Parenthesized(r) ELSE r)
             ELSE (IF IsAdditive(t.left) THEN Parenthesized(l) ELSE l)
                    \o <<OperationChar(t.operation)>>
                    \o (IF t.right.k = "binary" THEN Parenthesized(r) ELSE r)

TreeTexts == {TreeText(t) : t \in AllTrees}

\* A run of signs before a leaf.
SignRuns == Strings({PLUS, MINUS}, MaxSigns)
SignedLeaves == {<<DIGIT0 + 1, DIGIT0>>,
                 <<LPAREN, DIGIT0 + 1, PLUS, DIGIT0 + 2, RPAREN>>}
SignTexts == {r \o l : r \in SignRuns, l \in SignedLeaves}

Inputs == ShortTexts \cup NumeralTexts \cup ChainTexts \cup TreeTexts \cup SignTexts

Init == InitWith(Inputs)

Next == Parse \/ ParseExpression

Spec == Init /\ [][Next]_vars

\* One Tokenizer and Parser used for input after input, as main does.
MaxReuseLen == 2
ReuseTexts ==
    Strings({DIGIT0 + 2, MINUS, DOT, Unnamed.at}, MaxReuseLen)
        \cup {<<LPAREN, DIGIT0 + 2, RPAREN>>,
              <<MINUS, LPAREN, DIGIT0 + 1, PLUS, DIGIT0 + 2, RPAREN, STAR, DIGIT0 + 3>>,
              <<DIGIT0 + 1, SPACE, DIGIT0 + 2>>,
              <<LPAREN, DIGIT0 + 1>>,
              <<SPACE, PLUS, DIGIT0 + 7, Unnamed.at>>}

InitReuse == InitWith(ReuseTexts)

NextReuse == Parse \/ ParseExpression \/ SetInput(ReuseTexts)

SpecReuse == InitReuse /\ [][NextReuse]_vars

----------------------------------------------------------------------------
(* Properties                                                              *)

Input == tokenizer.input
Done == status \in {"returned", "threw"}
FirstParseDone == Done /\ calls = 1

\* The characters the latest scan consumed.
Lexeme == SubSeq(Input, tokenizer.tok_start, tokenizer.position - 1)
ScannedNumber ==
    tokenizer.scan_ok /\ tokenizer.tok_start > 0 /\ tokenizer.current_token = "number"
ScanStartsAtInput == tokenizer.tok_start \in 1..Len(Input)

RECURSIVE Count(_, _)
Count(text, c) ==
    IF text = <<>> THEN 0
    ELSE (IF Head(text) = c THEN 1 ELSE 0) + Count(Tail(text), c)

RECURSIVE FoldTree(_, _)
FoldTree(c, n) ==
    IF n = 0 THEN NumberNode(strtod(c.first))
    ELSE BinaryOperationNode(FoldTree(c, n - 1), NumberNode(strtod(c.args[n])), c.ops[n])

RECURSIVE FoldValue(_, _)
FoldValue(c, n) ==
    IF n = 0 THEN strtod(c.first)
    ELSE ApplyBinary(c.ops[n], FoldValue(c, n - 1), strtod(c.args[n]))

\* C1: a chain a op1 b ... opN z of number operands with the operators of
\* one precedence level parses to the left-folded tree
\* (((a op1 b) op2 c) ...), and its value is the fold from left to right.
C1_LeftAssociative ==
    (FirstParseDone /\ Input \in ChainTexts) =>
        \A c \in Chains :
            Input = ChainText(c) =>
                /\ status = "returned"
                /\ result = FoldTree(c, Len(c.ops))
                /\ eval(result) = FoldValue(c, Len(c.ops))

\* 10-5-2 has been parsed and is 3; 10/5/2 would be 1.
C1_Witness ==
    /\ status = "returned"
    /\ Input = <<DIGIT0 + 1, DIGIT0, MINUS, DIGIT0 + 5, MINUS, DIGIT0 + 2>>
    /\ eval(result) = Num(3)
    /\ result.left.k = "binary"

\* No two trees are written as the same text.
TreeTextInjective == Cardinality(TreeTexts) = Cardinality(AllTrees)

\* C2: the text of a tree of binary nodes, written with a multiplicative
\* chain as each additive operand and with parentheses around an operand
\* of a looser or equal level, parses to exactly that tree: '*' and '/'
\* bind tighter than '+' and '-', and a parenthesized operand is its inner
\* tree with no node around it.
C2_PrecedenceAndGrouping ==
    /\ TreeTextInjective
    /\ (FirstParseDone /\ Input \in TreeTexts) =>
          /\ status = "returned"
          /\ result \in AllTrees
          /\ TreeText(result) = Input

\* (3+20)*3 has been parsed to the product of the sum, 69.
C2_Witness ==
    /\ status = "returned"
    /\ Input = <<LPAREN, DIGIT0 + 3, PLUS, DIGIT0 + 2, DIGIT0, RPAREN, STAR, DIGIT0 + 3>>
    /\ result.operation = "mul"
    /\ result.left = BinaryOperationNode(NumberNode(Num(3)), NumberNode(Num(20)), "add")
    /\ eval(result) = Num(69)

RECURSIVE Negations(_, _)
Negations(k, node) ==
    IF k = 0 THEN node ELSE UnaryOperationNode(Negations(k - 1, node), "negate")

SignedLeafTree(l) ==
    IF Head(l) = LPAREN
    THEN BinaryOperationNode(NumberNode(Num(1)), NumberNode(Num(2)), "add")
    ELSE NumberNode(strtod(l))

Parity(k, v) == IF k % 2 = 0 THEN v ELSE Mul(v, [s |-> -1, n |-> 1, d |-> 1])

\* C3: a run of signs before a leaf is consumed whole; the tree is the
\* leaf's tree under one negation node per '-' and none per '+', and its
\* value is the leaf's value times (-1)^(number of '-').
C3_UnarySignParity ==
    (FirstParseDone /\ Input \in SignTexts) =>
        \A r \in SignRuns, l \in SignedLeaves :
            Input = r \o l =>
                /\ status = "returned"
                /\ result = Negations(Count(r, MINUS), SignedLeafTree(l))
                /\ eval(result) = Parity(Count(r, MINUS), eval(SignedLeafTree(l)))

\* --++-+-10 has been parsed to four negations of 10 and is 10.
C3_Witness ==
    /\ status = "returned"
    /\ Input = <<MINUS, MINUS, PLUS, PLUS, MINUS, PLUS, MINUS, DIGIT0 + 1, DIGIT0>>
    /\ result = Negations(4, NumberNode(Num(10)))
    /\ eval(result) = Num(10)

\* C4: parse_expression returns a tree only with eof as the current token;
\* when the top-level additive expression has been parsed and the current
\* token is not eof it throws the trailing-input error and returns no tree.
C4_FullConsumption ==
    /\ [](status = "returned" => tokenizer.current_token = "eof" /\ result # NoNode)
    /\ [][At(Machine, "parse_expression", {"check"}) =>
            IF tokenizer.current_token = "eof"
            THEN status' = "returned" /\ result' = ret
            ELSE status' = "threw" /\ error' = ErrTrailing /\ result' = NoNode]_vars

\* "1)" has failed with the trailing-input error, the ')' still current.
C4_Witness ==
    /\ status = "threw"
    /\ error = ErrTrailing
    /\ Input = <<DIGIT0 + 1, RPAREN>>
    /\ tokenizer.current_token = "closed_parentheses"
    /\ result = NoNode

\* C5: the characters of a number token are digits and at most one '.',
\* and a scan that stops at a '.' has consumed one.
C5_OneDotPerLiteral ==
    ScannedNumber =>
        /\ Count(Lexeme, DOT) <= 1
        /\ (tokenizer.current_char = DOT => Count(Lexeme, DOT) = 1)

\* C6 as claimed: a scan that starts at a '.' fails with the lex error, and
\* "1..2" ends in the lex error.
C6_DotFailsLexing ==
    /\ (ScanStartsAtInput /\ Input[tokenizer.tok_start] = DOT) => ~tokenizer.scan_ok
    /\ (Input = <<DIGIT0 + 1, DOT, DOT, DIGIT0 + 2>> /\ status \in {"threw", "failed"})
          => error = ErrLex

\* C6: a scan that starts at a '.' (one left over after a numeric literal,
\* or one with no digit around it) returns a number token that begins with
\* that '.'; it never fails with the lex error.  "1..2" is two number
\* tokens and ends in the trailing-input error.
C6_DotStartsNumber ==
    /\ (ScanStartsAtInput /\ Input[tokenizer.tok_start] = DOT) =>
          /\ tokenizer.scan_ok
          /\ tokenizer.current_token = "number"
          /\ tokenizer.position > tokenizer.tok_start
    /\ (Input = <<DIGIT0 + 1, DOT, DOT, DIGIT0 + 2>> /\ calls = 1 /\ status # "parsing")
          => status = "threw" /\ error = ErrTrailing

\* In "1..2" the second '.' has started the number token .2
C6_Witness ==
    /\ Input = <<DIGIT0 + 1, DOT, DOT, DIGIT0 + 2>>
    /\ tokenizer.tok_start = 3
    /\ tokenizer.current_token = "number"
    /\ tokenizer.number = [s |-> 1, n |-> 1, d |-> 5]
    /\ status = "threw"

Supported(c) ==
    c \in {PLUS, MINUS, STAR, SLASH, LPAREN, RPAREN, DOT} \/ isdigit(c)

\* C7: a scan that, after the spaces, starts at a character of the input
\* that is none of + - * / ( ), no digit and no '.' fails with the lex
\* error, and a scan returns eof only with the cursor past the last
\* character of the input.
C7_UnsupportedIsLexError ==
    /\ (ScanStartsAtInput /\ ~Supported(Input[tokenizer.tok_start])) => ~tokenizer.scan_ok
    /\ (tokenizer.scan_ok /\ tokenizer.tok_start > 0 /\ tokenizer.current_token = "eof")
          => tokenizer.tok_start = Len(Input) + 1

NoValue == Zero(1)
Outcome(m) ==
    IF m.status = "returned" THEN [kind |-> "tree", value |-> eval(m.result)]
    ELSE [kind |-> m.error, value |-> NoValue]

\* What a fresh Tokenizer(text) and a Parser on it give.
FreshOutcome(text) ==
    LET c == Construct(text)
    IN  IF c.status = "failed" THEN [kind |-> c.error, value |-> NoValue]
        ELSE Outcome(Run(parse_expression_call(c)))

\* C8: after any sequence of set_input and parse_expression calls, also
\* ones that threw, set_input(t) followed by parse_expression ends as a
\* fresh Tokenizer(t) and a parse of it do: in the same error, or in a tree
\* of the same value.
C8_RePrimingErasesHistory ==
    (Done /\ calls <= 1) => Outcome(Machine) = FreshOutcome(Input)

\* "--" has been given by set_input after ".2" and its parse has ended in
\* the unexpected-token error, as a fresh parse of it does, with the 0.2 of
\* the earlier input still in number.
C8_Witness ==
    /\ status = "threw"
    /\ error = ErrToken
    /\ calls = 1
    /\ Input = <<MINUS, MINUS>>
    /\ tokenizer.number = [s |-> 1, n |-> 1, d |-> 5]

\* C9: when parse_expression has returned a tree, a second call with no
\* set_input between the two returns a tree of the same value.
C9_RepeatedParse ==
    (Done /\ previous # NoNode) =>
        status = "returned" /\ eval(result) = eval(previous)

LoopIterates(fn) ==
    At(Machine, fn, {"left", "right", "loop"})
        /\ status' = "parsing" /\ Len(stack') >= Len(stack)
        /\ stack'[Len(stack)].pc # "return"

\* The calls a frame can still make before a token is scanned.
Descent(f) ==
    CASE f.fn = "additive" /\ f.pc = "call" -> 3
      [] f.fn = "multiplicative" /\ f.pc = "call" -> 2
      [] f.fn = "unary" /\ f.pc = "loop" -> 1
      [] OTHER -> 0

\* What is left of a parse: the input from the latest scan on, weighed
\* above the frames to leave and the calls to make before the next scan.
Rank ==
    10 * (Len(Input) + 1 - tokenizer.tok_start)
        + Len(stack) + (IF stack = <<>> THEN 0 ELSE 2 * Descent(stack[Len(stack)]))

ParserCanStep ==
    /\ stack # <<>>
    /\ <<stack[Len(stack)].fn, stack[Len(stack)].pc>> \in
          {<<"parse_expression", "check">>,
           <<"additive", "call">>, <<"additive", "left">>, <<"additive", "right">>,
           <<"multiplicative", "call">>, <<"multiplicative", "left">>,
           <<"multiplicative", "right">>,
           <<"unary", "loop">>, <<"unary", "negate">>, <<"unary", "return">>,
           <<"leaf", "start">>, <<"leaf", "close">>}

\* C10: the cursor never decreases and never exceeds length(input)+1; a
\* scan that returns a token other than eof has moved the cursor on; an
\* iteration of the loops of the additive, multiplicative and unary rules
\* scans a new token; and a parse that has started ends, in a tree or in
\* an exception: while it runs it has a next step, and every step of it
\* lowers Rank, a natural number.
C10_ProgressAndTermination ==
    /\ [](tokenizer.position <= Len(Input) + 1)
    /\ []((tokenizer.scan_ok /\ tokenizer.tok_start > 0 /\ tokenizer.current_token # "eof")
             => tokenizer.position > tokenizer.tok_start)
    /\ [][tokenizer'.position >= tokenizer.position
             /\ tokenizer'.tok_start >= tokenizer.tok_start]_vars
    /\ [][(LoopIterates("additive") \/ LoopIterates("multiplicative") \/ LoopIterates("unary"))
             => tokenizer'.tok_start > tokenizer.tok_start]_vars
    /\ [](status = "parsing" => ParserCanStep /\ Rank >= 0)
    /\ [][status = "parsing" => (Done' \/ (status' = "parsing" /\ Rank' < Rank))]_vars

\* "1+1" has been parsed to the end with the cursor one past the '\0'.
C10_Witness ==
    /\ status = "returned"
    /\ Input = <<DIGIT0 + 1, PLUS, DIGIT0 + 1>>
    /\ tokenizer.position = Len(Input) + 1
    /\ tokenizer.tok_start = Len(Input) + 1

====
